---- MODULE Spec2Model ----
(***************************************************************************)
(* A model of ComfyUI-HTMLRenderer (src/html_renderer.py):                 *)
(*   - HTMLFrameRenderer.render_frame and the FixedHTMLFrameGenerator it   *)
(*     builds (template substitution, over-sized capture, crop-back);      *)
(*   - HTMLVideoRecorderPlaywright.record_video with its worker thread,    *)
(*     _record_with_playwright, _build_html_content and _convert_to_mp4.   *)
(*                                                                         *)
(* Text is a sequence of symbols: the braces "{" and "}" are symbols of    *)
(* their own, every other symbol stands for a run of characters without    *)
(* braces (a key name, a word, a number).  A bitmap is a record of its     *)
(* width, height and rows of pixels; a pixel of a browser capture carries  *)
(* the coordinates it was captured at, so that a misplaced row or column   *)
(* is visible.                                                             *)
(***************************************************************************)
EXTENDS Integers, Sequences, FiniteSets, TLC

\* ------------------------------------------------------------------ bounds
MaxDim    == 2      \* output_width, output_height range over 1..MaxDim
MaxBatch  == 2      \* an input image batch holds 1..MaxBatch images
MaxOffset == 1      \* offsets 0..MaxOffset are tried beside the shipped one
MaxClip   == 1      \* rows the browser may drop from the bottom of a capture

\* --------------------------------------------------------------- constants
\* HTMLFrameRenderer.CHROMIUM_HEIGHT_OFFSET
CHROMIUM_HEIGHT_OFFSET == 87

None == [t |-> "None"]

\* an exception object
Exception(msg) == [t |-> "Exception", msg |-> msg]

\* -------------------------------------------------------------------- text
\* A Python value that reaches str(): a str, an int or a float.
StrVal(s) == [t |-> "str", s |-> s, n |-> 0]
IntVal(n) == [t |-> "int", s |-> <<>>, n |-> n]

Digit(d) == CASE d = 0 -> "0" [] d = 1 -> "1" [] d = 2 -> "2" [] d = 3 -> "3"
              [] d = 4 -> "4" [] d = 5 -> "5" [] d = 6 -> "6" [] d = 7 -> "7"
              [] d = 8 -> "8" [] d = 9 -> "9"

RECURSIVE Digits(_)
Digits(n) == IF n < 10 THEN <<Digit(n)>> ELSE Digits(n \div 10) \o <<Digit(n % 10)>>

\* a float with one binary digit after the point, given in halves
FloatVal(halves) == [t |-> "float", s |-> <<>>, n |-> halves]

\* str(x) of such a float: "3.0", "3.5"
StrFloat(v) == Digits(v.n \div 2) \o <<".">> \o (IF v.n % 2 = 0 THEN <<"0">> ELSE <<"5">>)

\* str(value)
Str(v) == CASE v.t = "int" ->
                 (IF v.n < 0 THEN <<"-">> \o Digits(0 - v.n) ELSE Digits(v.n))
            [] v.t = "float" -> StrFloat(v)
            [] OTHER -> v.s

\* Placeholder without the braces: the bare name of the key
Placeholder_BareKey(key) == <<key>>

\* f"{{{{{key}}}}}"
Placeholder(key) == <<"{", "{", key, "}", "}">>

\* where old first occurs in s, or 0
FirstOccurrence(s, old) ==
    LET hits == {i \in 1..(Len(s) - Len(old) + 1) : SubSeq(s, i, i + Len(old) - 1) = old}
    IN  IF hits = {} THEN 0 ELSE CHOOSE i \in hits : \A j \in hits : i <= j

\* str.replace(old, new) for a non-empty old: leftmost occurrences, left to
\* right, never looking again at text it has just written.
RECURSIVE StrReplace(_, _, _)
StrReplace(s, old, new) ==
    LET i == FirstOccurrence(s, old)
    IN  IF i = 0 THEN s
        ELSE SubSeq(s, 1, i - 1) \o new
                 \o StrReplace(SubSeq(s, i + Len(old), Len(s)), old, new)

\* s contains sub
RECURSIVE Contains(_, _)
Contains(s, sub) ==
    IF Len(s) < Len(sub) THEN FALSE
    ELSE \/ SubSeq(s, 1, Len(sub)) = sub
         \/ Contains(Tail(s), sub)

\* A dict is a sequence of [k, v] entries in insertion order.
DictKeys(d) == {d[i].k : i \in 1..Len(d)}
DictGet(d, key) == (CHOOSE i \in 1..Len(d) : d[i].k = key)
DictVal(d, key) == d[DictGet(d, key)].v

\* d[key] = value: an existing key keeps its place
DictSet(d, key, value) ==
    IF key \in DictKeys(d)
    THEN [d EXCEPT ![DictGet(d, key)] = [k |-> key, v |-> value]]
    ELSE Append(d, [k |-> key, v |-> value])

\* d.update(e)
RECURSIVE DictUpdate(_, _)
DictUpdate(d, e) ==
    IF e = <<>> THEN d
    ELSE DictUpdate(DictSet(d, e[1].k, e[1].v), Tail(e))

\* FixedHTMLFrameGenerator._replace_parameters
RECURSIVE _replace_parameters(_, _)
_replace_parameters(html, values) ==
    IF values = <<>> THEN html
    ELSE _replace_parameters(
             StrReplace(html, Placeholder(values[1].k), Str(values[1].v)),
             Tail(values))

\* ----------------------------------------------------------------- bitmaps
Black == <<"black">>

\* What the browser paints at column x, row y (0-based) of a capture.
Painted(x, y) == <<x, y>>

\* A capture of w columns and h rows.
Capture(w, h) ==
    [w |-> w, h |-> h,
     rows |-> [y \in 1..h |-> [x \in 1..w |-> Painted(x - 1, y - 1)]]]

\* PIL Image.crop((left, upper, right, lower)): the result always has
\* right-left columns and lower-upper rows; a pixel outside the source
\* is black.
Crop(img, left, upper, right, lower) ==
    [w |-> right - left, h |-> lower - upper,
     rows |-> [y \in 1..(lower - upper) |->
                 [x \in 1..(right - left) |->
                     IF /\ 1 <= x + left /\ x + left <= img.w
                        /\ 1 <= y + upper /\ y + upper <= img.h
                     THEN img.rows[y + upper][x + left]
                     ELSE Black]]]

\* ----------------------------------------------------------- image tensors
\* A tensor is a batch [B, H, W, C] (batched) or one image [H, W, C].
Frame(h, w, c, px) == [h |-> h, w |-> w, c |-> c, px |-> px]
Tensor(batched, frames) == [batched |-> batched, frames |-> frames]

\* len(image.shape)
NDim(img) == IF img.batched THEN 4 ELSE 3
\* image[0] of a batch
First(img) == Tensor(FALSE, <<img.frames[1]>>)
\* image[None, ...]
AddBatchDim(img) == Tensor(TRUE, img.frames)
\* the (H, W, C) of the images of a tensor
Shapes(img) == {<<img.frames[i].h, img.frames[i].w, img.frames[i].c>> :
                    i \in 1..Len(img.frames)}

\* np.array(rendered_image) / 255 -> torch.from_numpy(...)[None, ...]
\* of an RGB bitmap
ToTensor(bmp) == Tensor(TRUE, <<Frame(bmp.h, bmp.w, 3, bmp.rows)>>)

InputImages ==
    {Tensor(FALSE, <<Frame(1, 1, 3, 1)>>)} \cup
    {Tensor(TRUE, [i \in 1..n |-> Frame(1, 1, 3, i)]) : n \in 1..MaxBatch}

\* ---------------------------------------------------------------- ext_json
\* The ext_json texts: a JSON object (its entries in order), JSON that is
\* not an object, text that is not JSON, blank text, and text that is not
\* JSON and opens more brackets than the interpreter's recursion limit
\* ("[" a hundred thousand times).
JsonObject(entries) == [kind |-> "object", entries |-> entries]
JsonOther == [kind |-> "other", entries |-> <<>>]
JsonMalformed == [kind |-> "malformed", entries |-> <<>>]
JsonBlank == [kind |-> "blank", entries |-> <<>>]
JsonTooDeep == [kind |-> "too_deep", entries |-> <<>>]

\* json.loads(ext_json) if ext_json.strip() else {}: the value, or the
\* exception json.loads raises: json.JSONDecodeError for text that is not
\* JSON, RecursionError when the scanner goes too deep before it finds out
JsonLoads(text) ==
    CASE text.kind = "blank" ->
           [raised |-> FALSE, error |-> "none", dict |-> TRUE, entries |-> <<>>]
      [] text.kind = "object" ->
           [raised |-> FALSE, error |-> "none", dict |-> TRUE, entries |-> text.entries]
      [] text.kind = "other" ->
           [raised |-> FALSE, error |-> "none", dict |-> FALSE, entries |-> <<>>]
      [] text.kind = "malformed" ->
           [raised |-> TRUE, error |-> "JSONDecodeError", dict |-> FALSE, entries |-> <<>>]
      [] text.kind = "too_deep" ->
           [raised |-> TRUE, error |-> "RecursionError", dict |-> FALSE, entries |-> <<>>]

\* --------------------------------------------------------- still-frame state
VARIABLES
    offset,      \* HTMLFrameRenderer.CHROMIUM_HEIGHT_OFFSET as configured
    fpc,         \* render_frame: where the call stands
    fin,         \* render_frame: its arguments
    image,       \* render_frame: the local variable image
    temp_dir,    \* render_frame: "none", "exists" or "removed"
    ffiles,      \* the files render_frame works on: content or None
    ext_params,  \* render_frame: ext_params
    generator,   \* the FixedHTMLFrameGenerator of the call
    html,        \* generate_frame: html
    fraised,     \* the step whose exception is being handled, or "no"
    rmtree_failed, \* shutil.rmtree(temp_dir) raised
    fret         \* what render_frame returned, or None

frameVars == <<offset, fpc, fin, image, temp_dir, ffiles, ext_params,
               generator, html, fraised, rmtree_failed, fret>>

VARIABLES
    vpc,            \* record_video: where the calling thread stands
    vin,            \* record_video: its arguments
    vtemp_dir,      \* record_video: temp_dir, "none" or "exists"
    vfs,            \* the files record_video works on: path -> content
    html_content,   \* record_video: html_content
    video_result,   \* record_video: video_result[0]
    error_result,   \* record_video: error_result[0]
    wpc,            \* the worker thread: where _record_with_playwright stands
    wvideo_path,    \* _record_with_playwright: video_path
    video_path,     \* record_video: video_path
    mp4_path,       \* record_video: mp4_path
    final_video_path, \* record_video: final_video_path
    vraised,        \* the step whose exception is being handled, or "no"
    venc,           \* how the encoder ended, or "none"
    vconverted,     \* what _convert_to_mp4 left in output_path, or None
    vreloc,         \* how saving to the output folder ended, or "none"
    vret            \* what record_video returned, or None

videoVars == <<vpc, vin, vtemp_dir, vfs, html_content, video_result,
               error_result, wpc, wvideo_path, video_path, mp4_path,
               final_video_path, vraised, venc, vconverted, vreloc, vret>>

\* ------------------------------------------------------- substitution state
VARIABLES
    tpc,   \* the substitution on its own: "idle" or "resolved"
    tin,   \* its inputs: the template and the replacements in the order applied
    tout   \* the text it gave

templateVars == <<tpc, tin, tout>>

\* ------------------------------------------------------ output folder state
VARIABLES
    now,         \* the clock datetime.now() reads, in ticks
    sfs,         \* the files a relocation works on, the output folder's included
    spc,         \* the relocation in progress: "idle", "copy" or "done"
    sin,         \* its arguments, and which operation makes it
    final_path,  \* save_video: final_path (record_video: final_video_path)
    sreplaced,   \* what shutil.copy2 found at its destination, or None
    sret,        \* what the relocation gave back, or None
    saves        \* the relocations made so far

saveVars == <<now, sfs, spc, sin, final_path, sreplaced, sret, saves>>

VARIABLES
    sessions     \* the Html2Image sessions the calls of this HTMLFrameRenderer
                 \* have created so far

rendererVars == <<sessions>>

VARIABLES
    calls,       \* concurrent record_video invocations: the locals of each
    slots,       \* the video_result / error_result lists that were made
    workers,     \* the thread of each invocation: where it stands, what its
                 \* closure and its browser context refer to
    tmpfs        \* the files under the directory of temporary files

concVars == <<calls, slots, workers, tmpfs>>

vars == <<frameVars, videoVars, templateVars, saveVars, rendererVars, concVars>>

NoFiles == [input_image |-> None, template |-> None, raw |-> None,
            output_frame |-> None, saved |-> None]

NoGenerator == [template |-> <<>>, width |-> 0, height |-> 0, hti |-> None]

OffsetValues == (0..MaxOffset) \cup {CHROMIUM_HEIGHT_OFFSET}

\* The texts the calls are given.
FrameTemplates ==
    { <<"<h1>">> \o Placeholder("title") \o <<"</h1>">>,
      Placeholder("text") \o Placeholder("k") \o Placeholder("width") }
Titles == { <<"Hi">>, Placeholder("text") }
Texts == { <<"T">> }
ExtJsons ==
    { JsonMalformed, JsonTooDeep, JsonOther,
      JsonObject(<<[k |-> "k", v |-> StrVal(<<"K">>)]>>) }

FrameIdle ==
    /\ fpc = "idle"
    /\ fin = None
    /\ image = None
    /\ temp_dir = "none"
    /\ ffiles = NoFiles
    /\ ext_params = <<>>
    /\ generator = NoGenerator
    /\ html = <<>>
    /\ fraised = "no"
    /\ rmtree_failed = FALSE
    /\ fret = None

VideoIdle ==
    /\ vpc = "idle"
    /\ vin = None
    /\ vtemp_dir = "none"
    /\ vfs = [p \in {} |-> None]
    /\ html_content = <<>>
    /\ video_result = None
    /\ error_result = None
    /\ wpc = "none"
    /\ wvideo_path = None
    /\ video_path = None
    /\ mp4_path = None
    /\ final_video_path = None
    /\ vraised = "no"
    /\ venc = None
    /\ vconverted = None
    /\ vreloc = "none"
    /\ vret = None

TemplateIdle ==
    /\ tpc = "idle"
    /\ tin = None
    /\ tout = <<>>

\* no relocation was made yet and the clock stands at its start
SaveUntouched == saves = 0 /\ now = 0 /\ spc = "idle"

\* the sessions one HTMLFrameRenderer is followed through
MaxSessions == 2
\* this HTMLFrameRenderer has created no session yet
RendererUntouched == sessions = 0

\* no concurrent record_video invocation was made yet
ConcurrentUntouched == \A i \in DOMAIN calls : calls[i].pc = "idle"

\* An exception at step `step` of render_frame: control goes to the handler.
FRaise(step) ==
    /\ fpc' = "except"
    /\ fraised' = step

\* render_frame is called  (lines 369-385)
RenderFrameCall ==
    /\ fpc = "idle"
    /\ vpc = "idle"
    /\ tpc = "idle"
    /\ SaveUntouched
    /\ ConcurrentUntouched
    /\ sessions < MaxSessions
    /\ \E img \in InputImages, title \in Titles, text \in Texts,
          tpl \in FrameTemplates, ej \in ExtJsons,
          w \in 1..MaxDim, h \in 1..MaxDim :
        /\ fin' = [image |-> img, title |-> title, text |-> text,
                   template_html |-> tpl, ext_json |-> ej,
                   output_width |-> w, output_height |-> h]
        /\ image' = IF NDim(img) = 4 THEN First(img) ELSE img
    /\ fpc' = "mkdtemp"
    /\ UNCHANGED <<offset, temp_dir, ffiles, ext_params, generator, html,
                   fraised, rmtree_failed, fret>>
    /\ UNCHANGED <<videoVars, templateVars, saveVars>>
    /\ UNCHANGED <<rendererVars, concVars>>

\* temp_dir = tempfile.mkdtemp(...)  (line 388)
FMkdtemp ==
    /\ fpc = "mkdtemp"
    /\ \/ /\ temp_dir' = "exists"
          /\ fpc' = "write_inputs"
          /\ UNCHANGED fraised
       \/ /\ FRaise("mkdtemp")
          /\ UNCHANGED temp_dir
    /\ UNCHANGED <<offset, fin, image, ffiles, ext_params, generator, html,
                   rmtree_failed, fret>>
    /\ UNCHANGED <<videoVars, templateVars, saveVars>>
    /\ UNCHANGED <<rendererVars, concVars>>

\* the input image and the template are written to temp_dir  (lines 391-398)
FWriteInputs ==
    /\ fpc = "write_inputs"
    /\ \/ /\ ffiles' = [ffiles EXCEPT !.input_image = image,
                                      !.template = fin.template_html]
          /\ fpc' = "parse_ext"
          /\ UNCHANGED fraised
       \/ /\ FRaise("write_inputs")
          /\ UNCHANGED ffiles
    /\ UNCHANGED <<offset, fin, image, temp_dir, ext_params, generator, html,
                   rmtree_failed, fret>>
    /\ UNCHANGED <<videoVars, templateVars, saveVars>>
    /\ UNCHANGED <<rendererVars, concVars>>

\* ext_params of render_frame once width and height are added (lines 401-409):
\* only json.JSONDecodeError is caught and gives {}; any other exception of
\* json.loads leaves the try, and a value that is no dict raises at the item
\* assignment
FrameExtParams(ext_json, w, h) ==
    LET r == JsonLoads(ext_json)
        loaded == IF r.error = "JSONDecodeError" THEN <<>> ELSE r.entries
    IN  IF (r.raised /\ r.error # "JSONDecodeError") \/ (~r.raised /\ ~r.dict)
        THEN [raised |-> TRUE, entries |-> <<>>]
        ELSE [raised |-> FALSE,
              entries |-> DictSet(DictSet(loaded, "width", IntVal(w)),
                                  "height", IntVal(h))]

FParseExt ==
    /\ fpc = "parse_ext"
    /\ LET r == FrameExtParams(fin.ext_json, fin.output_width, fin.output_height)
       IN  IF r.raised
           THEN FRaise("parse_ext") /\ UNCHANGED ext_params
           ELSE /\ ext_params' = r.entries
                /\ fpc' = "create_generator"
                /\ UNCHANGED fraised
    /\ UNCHANGED <<offset, fin, image, temp_dir, ffiles, generator, html,
                   rmtree_failed, fret>>
    /\ UNCHANGED <<videoVars, templateVars, saveVars>>
    /\ UNCHANGED <<rendererVars, concVars>>

\* FixedHTMLFrameGenerator.__init__  (lines 464-473)
NewGenerator(template, width, height) ==
    [template |-> template, width |-> width, height |-> height, hti |-> None]

\* generator = self._create_html_frame_generator(...)  (lines 412-416)
FCreateGenerator ==
    /\ fpc = "create_generator"
    /\ \/ /\ generator' = NewGenerator(ffiles.template, fin.output_width,
                                       fin.output_height)
          /\ fpc' = "resolve"
          /\ UNCHANGED fraised
       \/ /\ FRaise("create_generator")
          /\ UNCHANGED generator
    /\ UNCHANGED <<offset, fin, image, temp_dir, ffiles, ext_params, html,
                   rmtree_failed, fret>>
    /\ UNCHANGED <<videoVars, templateVars, saveVars>>
    /\ UNCHANGED <<rendererVars, concVars>>

\* the context of generate_frame  (lines 505-513)
FrameContext(title, text, image_path, ext) ==
    LET context == << [k |-> "title", v |-> StrVal(title)],
                      [k |-> "text", v |-> StrVal(text)],
                      [k |-> "image", v |-> StrVal(<<"file://", image_path>>)] >>
    IN  IF ext # <<>> THEN DictUpdate(context, ext) ELSE context

\* generate_frame: html = self._replace_parameters(self.template, context)
\* (lines 505-526)
FResolve ==
    /\ fpc = "resolve"
    /\ html' = _replace_parameters(
                   generator.template,
                   FrameContext(fin.title, fin.text, "input_image.png", ext_params))
    /\ fpc' = "ensure_hti"
    /\ UNCHANGED <<offset, fin, image, temp_dir, ffiles, ext_params, generator,
                   fraised, rmtree_failed, fret>>
    /\ UNCHANGED <<videoVars, templateVars, saveVars>>
    /\ UNCHANGED <<rendererVars, concVars>>

\* RenderHeight without the compensation
RenderHeight_Uncompensated(height, off) == height

\* render_height = self.height + HTMLFrameRenderer.CHROMIUM_HEIGHT_OFFSET
\* (line 529)
RenderHeight(height, off) == height + off

\* FixedHTMLFrameGenerator._ensure_hti: the session is made only when
\* there is none  (lines 482-498)
_ensure_hti(gen, render_width, render_height) ==
    IF gen.hti = None
    THEN [gen EXCEPT !.hti = [t |-> "Html2Image",
                              size |-> <<render_width, render_height>>]]
    ELSE gen

\* generate_frame: self._ensure_hti(self.width, render_height)  (lines 529-532)
FEnsureHti ==
    /\ fpc = "ensure_hti"
    /\ \/ /\ generator' = _ensure_hti(generator, generator.width,
                                      RenderHeight(generator.height, offset))
          /\ sessions' = IF generator.hti = None THEN sessions + 1 ELSE sessions
          /\ fpc' = "screenshot"
          /\ UNCHANGED fraised
       \/ /\ FRaise("ensure_hti")
          /\ UNCHANGED <<generator, sessions>>
    /\ UNCHANGED <<offset, fin, image, temp_dir, ffiles, ext_params, html,
                   rmtree_failed, fret>>
    /\ UNCHANGED <<videoVars, templateVars, saveVars>>
    /\ UNCHANGED concVars

\* self.hti.screenshot(html_str=html, save_as=temp_filename): the browser
\* writes a capture of the session's size (it may drop rows at the bottom),
\* writes nothing, or the call raises  (lines 537-544)
FScreenshot ==
    /\ fpc = "screenshot"
    /\ \/ /\ \E clip \in 0..MaxClip :
                /\ clip <= generator.hti.size[2]
                /\ ffiles' = [ffiles EXCEPT !.raw =
                       Capture(generator.hti.size[1], generator.hti.size[2] - clip)]
          /\ fpc' = "crop"
          /\ UNCHANGED fraised
       \/ /\ fpc' = "crop"
          /\ UNCHANGED <<ffiles, fraised>>
       \/ /\ FRaise("screenshot")
          /\ UNCHANGED ffiles
    /\ UNCHANGED <<offset, fin, image, temp_dir, ext_params, generator, html,
                   rmtree_failed, fret>>
    /\ UNCHANGED <<videoVars, templateVars, saveVars>>
    /\ UNCHANGED <<rendererVars, concVars>>

\* CropToRequested keeping the whole height of the capture
CropToRequested_WidthOnly(img, width, height) == Crop(img, 0, 0, width, img.h)

\* CropToRequested taking the bottom rows of the capture
CropToRequested_Bottom(img, width, height) ==
    Crop(img, 0, img.h - height, width, img.h)

\* cropped_img = img.crop((0, 0, self.width, self.height))  (line 550)
CropToRequested(img, width, height) == Crop(img, 0, 0, width, height)

\* generate_frame: crop the raw capture and save it as output_path, or raise
\* when the raw capture was not produced  (lines 546-551, 558-563)
FCrop ==
    /\ fpc = "crop"
    /\ IF ffiles.raw # None
       THEN \/ /\ ffiles' = [ffiles EXCEPT !.output_frame =
                      CropToRequested(ffiles.raw, generator.width, generator.height)]
               /\ fpc' = "remove_raw"
               /\ UNCHANGED fraised
            \/ /\ FRaise("crop")
               /\ UNCHANGED ffiles
       ELSE /\ FRaise("raw_missing")
            /\ UNCHANGED ffiles
    /\ UNCHANGED <<offset, fin, image, temp_dir, ext_params, generator, html,
                   rmtree_failed, fret>>
    /\ UNCHANGED <<videoVars, templateVars, saveVars>>
    /\ UNCHANGED <<rendererVars, concVars>>

\* generate_frame: os.remove(temp_output); an exception of it is re-raised
\* (lines 554-563)
FRemoveRaw ==
    /\ fpc = "remove_raw"
    /\ \/ /\ ffiles' = [ffiles EXCEPT !.raw = None]
          /\ fpc' = "load"
          /\ UNCHANGED fraised
       \/ /\ FRaise("remove_raw")
          /\ UNCHANGED ffiles
    /\ UNCHANGED <<offset, fin, image, temp_dir, ext_params, generator, html,
                   rmtree_failed, fret>>
    /\ UNCHANGED <<videoVars, templateVars, saveVars>>
    /\ UNCHANGED <<rendererVars, concVars>>

\* render_frame: the tensor of the rendered image, and the image saved as
\* output_saved_path beside temp_dir  (lines 428-442)
FLoadAndSave ==
    /\ fpc = "load"
    /\ \/ /\ ffiles' = [ffiles EXCEPT !.saved = ffiles.output_frame]
          /\ fpc' = "cleanup"
          /\ UNCHANGED fraised
       \/ /\ FRaise("load")
          /\ UNCHANGED ffiles
    /\ UNCHANGED <<offset, fin, image, temp_dir, ext_params, generator, html,
                   rmtree_failed, fret>>
    /\ UNCHANGED <<videoVars, templateVars, saveVars>>
    /\ UNCHANGED <<rendererVars, concVars>>

\* the value render_frame returns when nothing was raised  (lines 435-452)
FrameResult(bmp) == [image |-> ToTensor(bmp), image_path |-> "rendered_frame.png"]

\* the value render_frame's handler returns  (lines 454-458)
FrameDegraded(img) ==
    [image |-> IF NDim(img) = 3 THEN AddBatchDim(img) ELSE img, image_path |-> ""]

\* render_frame: shutil.rmtree(temp_dir), whose exception is swallowed, and
\* the return  (lines 444-452)
FCleanupReturn ==
    /\ fpc = "cleanup"
    /\ \/ /\ temp_dir' = "removed"
          /\ ffiles' = [ffiles EXCEPT !.input_image = None, !.template = None,
                                      !.output_frame = None]
          /\ UNCHANGED rmtree_failed
       \/ /\ rmtree_failed' = TRUE
          /\ UNCHANGED <<temp_dir, ffiles>>
    /\ fret' = FrameResult(ffiles.saved)
    /\ fpc' = "done"
    /\ UNCHANGED <<offset, fin, image, ext_params, generator, html, fraised>>
    /\ UNCHANGED <<videoVars, templateVars, saveVars>>
    /\ UNCHANGED <<rendererVars, concVars>>

\* render_frame: except Exception  (lines 454-458)
FExcept ==
    /\ fpc = "except"
    /\ fret' = FrameDegraded(image)
    /\ fpc' = "done"
    /\ UNCHANGED <<offset, fin, image, temp_dir, ffiles, ext_params, generator,
                   html, fraised, rmtree_failed>>
    /\ UNCHANGED <<videoVars, templateVars, saveVars>>
    /\ UNCHANGED <<rendererVars, concVars>>

\* the host takes the result; the next call starts afresh
FTaken ==
    /\ fpc = "done"
    /\ fpc' = "idle"
    /\ fin' = None
    /\ image' = None
    /\ temp_dir' = "none"
    /\ ffiles' = NoFiles
    /\ ext_params' = <<>>
    /\ generator' = NoGenerator
    /\ html' = <<>>
    /\ fraised' = "no"
    /\ rmtree_failed' = FALSE
    /\ fret' = None
    /\ UNCHANGED offset
    /\ UNCHANGED <<videoVars, templateVars, saveVars>>
    /\ UNCHANGED <<rendererVars, concVars>>

\* ------------------------------------------------------------- video: text
\* the script _build_html_content puts before </body>  (lines 1171-1204)
AnimationScript == <<"<script>">>

\* HTMLVideoRecorderPlaywright._build_html_content  (lines 1150-1206)
_build_html_content(template, title, text, duration, fps, image_base64, current_time, ext_entries) ==
    LET h1 == StrReplace(template, Placeholder("title"), title)
        h2 == StrReplace(h1, Placeholder("text"), text)
        h3 == StrReplace(h2, Placeholder("duration"), StrFloat(duration))
        h4 == StrReplace(h3, Placeholder("fps"), Str(IntVal(fps)))
        h5 == StrReplace(h4, Placeholder("current_time"), current_time)
        h6 == StrReplace(h5, Placeholder("image_url"), image_base64)
        h7 == _replace_parameters(h6, ext_entries)
    IN  StrReplace(h7, <<"</body>">>, AnimationScript \o <<"</body>">>)

\* ------------------------------------------------------------ video: files
Path(dir, stem, ext) == [dir |-> dir, stem |-> stem, ext |-> ext]

\* the empty string, as a path
EmptyPath == Path("", "", "")

\* output_path.replace('.mp4', '.webm')
ReplaceMp4ByWebm(path) ==
    IF path.ext = ".mp4" THEN [path EXCEPT !.ext = ".webm"] ELSE path

\* os.path.exists(path), for a path or None
Exists(fs, path) == path # None /\ path \in DOMAIN fs

\* shutil.copy2(src, dst)
Copy2(fs, src, dst) == (dst :> fs[src]) @@ fs

HtmlPath == Path("temp_dir", "content", ".html")
RecordedPath == Path("temp_dir", "page", ".webm")
Mp4Path == Path("temp_dir", "output", ".mp4")

Recorded == [format |-> "webm", data |-> "recording"]
Encoded == [format |-> "mp4", data |-> "recording"]
Unfinished == [format |-> "mp4", data |-> "unfinished"]

\* How the ffmpeg subprocess ends: exit status 0, a nonzero exit status,
\* the binary not found (subprocess.run raises FileNotFoundError), or
\* another exception of subprocess.run (PermissionError, OSError).
EncoderOutcomes == {"exit_zero", "exit_nonzero", "not_found", "os_error"}

\* HTMLVideoRecorderPlaywright._convert_to_mp4  (lines 1274-1327).
\* enc: how the encoder ends; unfinished: a failing encoder leaves an
\* unfinished output file behind; copy_ok: shutil.copy2 works (when it does
\* not, the copy of the handler at lines 1318-1327 fails like the first).
\* The result: whether the call raised, the files afterwards, and
\* output_path, the method's local variable at its end.  The method has no
\* return statement.
_convert_to_mp4(fs, input_path, output_path, enc, unfinished, copy_ok) ==
    LET raise == [raised |-> TRUE, fs |-> fs, output_path |-> output_path]
        \* except Exception  (lines 1318-1327)
        handler(fs1) ==
            IF Exists(fs1, input_path) /\ copy_ok
            THEN [raised |-> FALSE,
                  fs |-> Copy2(fs1, input_path, ReplaceMp4ByWebm(output_path)),
                  output_path |-> ReplaceMp4ByWebm(output_path)]
            ELSE [raised |-> TRUE, fs |-> fs1, output_path |-> output_path]
        left == IF unfinished THEN (output_path :> Unfinished) @@ fs ELSE fs
    IN  IF ~Exists(fs, input_path) THEN raise           \* lines 1279-1280, 1315-1317
        ELSE CASE enc = "not_found" -> raise            \* lines 1296, 1315-1317
               [] enc = "os_error" -> handler(fs)
               [] enc = "exit_zero" ->
                    [raised |-> FALSE, fs |-> (output_path :> Encoded) @@ fs,
                     output_path |-> output_path]
               [] enc = "exit_nonzero" ->               \* lines 1298-1311
                    IF input_path.ext = ".webm"
                    THEN IF copy_ok
                         THEN [raised |-> FALSE,
                               fs |-> Copy2(left, input_path, ReplaceMp4ByWebm(output_path)),
                               output_path |-> ReplaceMp4ByWebm(output_path)]
                         ELSE handler(left)
                    ELSE IF copy_ok
                         THEN [raised |-> FALSE,
                               fs |-> Copy2(left, input_path, output_path),
                               output_path |-> output_path]
                         ELSE handler(left)

\* ------------------------------------------------------------ video inputs
NoFs == [p \in {} |-> None]

VideoTemplates ==
    { <<"<body>">> \o Placeholder("title") \o Placeholder("text") \o <<"</body>">>,
      Placeholder("k") \o Placeholder("fps") \o Placeholder("duration") }
VideoExtJsons == ExtJsons
\* duration_seconds in half seconds (3.0 and 3.5), fps
Durations == {6, 7}
FpsValues == {1, 24}

\* INPUT_TYPES: duration_seconds from 3.0 to 120.0 in steps of 0.5, fps from
\* 1 to 60
DurationMin == 3
DurationMax == 120
FpsMin == 1
FpsMax == 60
\* the valid durations, in half seconds
ValidDurations == (2 * DurationMin)..(2 * DurationMax)
ValidFps == FpsMin..FpsMax

\* the length text_preview keeps, and the marker it adds
PreviewLength == 100
Ellipsis == <<".", ".", ".">>

\* a text of n characters
LongText(n) == [i \in 1..n |-> Digit(i % 10)]

\* the body texts record_video is given: a short one, one of exactly
\* PreviewLength characters and one of one character more
VideoTexts == Texts \cup {LongText(PreviewLength), LongText(PreviewLength + 1)}

\* An exception at step `step` of record_video: control goes to the handler.
VRaise(step) ==
    /\ vpc' = "except"
    /\ vraised' = step

\* record_video is called  (lines 926-938)
RecordVideoCall ==
    /\ vpc = "idle"
    /\ fpc = "idle"
    /\ tpc = "idle"
    /\ SaveUntouched
    /\ RendererUntouched
    /\ ConcurrentUntouched
    /\ \E title \in Titles, text \in VideoTexts, tpl \in VideoTemplates,
          ej \in VideoExtJsons, d \in Durations, f \in FpsValues,
          save \in BOOLEAN :
        vin' = [title |-> title, text |-> text, template_html |-> tpl,
                duration_seconds |-> FloatVal(d), fps |-> f,
                ext_json |-> ej, save_to_output |-> save,
                output_filename |-> "html_video_output"]
    /\ vpc' = "mkdtemp"
    /\ UNCHANGED <<vtemp_dir, vfs, html_content, video_result, error_result,
                   wpc, wvideo_path, video_path, mp4_path, final_video_path,
                   vraised, venc, vconverted, vreloc, vret>>
    /\ UNCHANGED <<frameVars, templateVars, saveVars>>
    /\ UNCHANGED <<rendererVars, concVars>>

\* temp_dir = tempfile.mkdtemp(...)  (line 940)
VMkdtemp ==
    /\ vpc = "mkdtemp"
    /\ \/ /\ vtemp_dir' = "exists"
          /\ vpc' = "build"
          /\ UNCHANGED vraised
       \/ /\ VRaise("mkdtemp")
          /\ UNCHANGED vtemp_dir
    /\ UNCHANGED <<vin, vfs, html_content, video_result, error_result,
                   wpc, wvideo_path, video_path, mp4_path, final_video_path,
                   venc, vconverted, vreloc, vret>>
    /\ UNCHANGED <<frameVars, templateVars, saveVars>>
    /\ UNCHANGED <<rendererVars, concVars>>

\* ext_params of record_video: any exception of json.loads gives {}
\* (lines 947-950)
VideoExtParams(ext_json) ==
    LET r == JsonLoads(ext_json)
    IN  IF r.raised THEN [dict |-> TRUE, entries |-> <<>>]
        ELSE [dict |-> r.dict, entries |-> r.entries]

\* record_video: the image, ext_params, current_time and html_content; a
\* loaded ext_json that is no dict has no items() and raises in
\* _build_html_content  (lines 942-968, 1166)
VBuild ==
    /\ vpc = "build"
    /\ LET ext == VideoExtParams(vin.ext_json)
       IN  IF ext.dict
           THEN /\ html_content' = _build_html_content(
                        vin.template_html, vin.title, vin.text,
                        vin.duration_seconds, vin.fps, <<"data:image/png">>,
                        <<"current_time">>, ext.entries)
                /\ vpc' = "write_html"
                /\ UNCHANGED vraised
           ELSE /\ VRaise("build")
                /\ UNCHANGED html_content
    /\ UNCHANGED <<vin, vtemp_dir, vfs, video_result, error_result,
                   wpc, wvideo_path, video_path, mp4_path, final_video_path,
                   venc, vconverted, vreloc, vret>>
    /\ UNCHANGED <<frameVars, templateVars, saveVars>>
    /\ UNCHANGED <<rendererVars, concVars>>

\* record_video: content.html is written  (lines 971-973)
VWriteHtml ==
    /\ vpc = "write_html"
    /\ \/ /\ vfs' = (HtmlPath :> html_content) @@ vfs
          /\ vpc' = "start"
          /\ UNCHANGED vraised
       \/ /\ VRaise("write_html")
          /\ UNCHANGED vfs
    /\ UNCHANGED <<vin, vtemp_dir, html_content, video_result, error_result,
                   wpc, wvideo_path, video_path, mp4_path, final_video_path,
                   venc, vconverted, vreloc, vret>>
    /\ UNCHANGED <<frameVars, templateVars, saveVars>>
    /\ UNCHANGED <<rendererVars, concVars>>

\* record_video: the two slots are made and the thread is started
\* (lines 976-999)
VStart ==
    /\ vpc = "start"
    /\ video_result' = None
    /\ error_result' = None
    /\ \/ /\ wpc' = "launch"
          /\ vpc' = "join"
          /\ UNCHANGED vraised
       \/ /\ VRaise("start")
          /\ UNCHANGED wpc
    /\ UNCHANGED <<vin, vtemp_dir, vfs, html_content, wvideo_path,
                   video_path, mp4_path, final_video_path,
                   venc, vconverted, vreloc, vret>>
    /\ UNCHANGED <<frameVars, templateVars, saveVars>>
    /\ UNCHANGED <<rendererVars, concVars>>

\* ------------------------------------------------------ the worker thread
\* _record_with_playwright, await by await  (lines 1208-1272)
WorkerSteps == <<"launch", "new_context", "load", "hold", "video_path",
                 "close_context", "close_browser", "grace", "locate">>
WorkerRunning == {WorkerSteps[i] : i \in 1..Len(WorkerSteps)}

\* a capture that looks for the recording as soon as the hold is over,
\* without closing the context and the browser first
WorkerAfter_LocateBeforeClose(step) ==
    IF step = "hold" THEN "locate"
    ELSE LET i == CHOOSE j \in 1..Len(WorkerSteps) : WorkerSteps[j] = step
         IN  WorkerSteps[i + 1]

\* the step after `step`
WorkerAfter(step) ==
    LET i == CHOOSE j \in 1..Len(WorkerSteps) : WorkerSteps[j] = step
    IN  WorkerSteps[i + 1]

\* launch, new_context, new_page/goto/wait, asyncio.sleep(duration),
\* browser.close(), asyncio.sleep(1.0): the await returns
\* (lines 1213-1243, 1252-1255)
WAwait ==
    /\ wpc \in {"launch", "new_context", "load", "hold", "close_browser", "grace"}
    /\ wpc' = WorkerAfter(wpc)
    /\ UNCHANGED <<vpc, vin, vtemp_dir, vfs, html_content, video_result,
                   error_result, wvideo_path, video_path, mp4_path,
                   final_video_path, vraised, venc, vconverted, vreloc, vret>>
    /\ UNCHANGED <<frameVars, templateVars, saveVars>>
    /\ UNCHANGED <<rendererVars, concVars>>

\* video_path = await page.video.path() if page.video  (lines 1246-1248)
WVideoPath ==
    /\ wpc = "video_path"
    /\ wvideo_path' \in {RecordedPath, None}
    /\ wpc' = WorkerAfter(wpc)
    /\ UNCHANGED <<vpc, vin, vtemp_dir, vfs, html_content, video_result,
                   error_result, video_path, mp4_path,
                   final_video_path, vraised, venc, vconverted, vreloc, vret>>
    /\ UNCHANGED <<frameVars, templateVars, saveVars>>
    /\ UNCHANGED <<rendererVars, concVars>>

\* await context.close(): the recording is written to temp_dir, or the
\* browser wrote none  (line 1251)
WCloseContext ==
    /\ wpc = "close_context"
    /\ \/ vfs' = (RecordedPath :> Recorded) @@ vfs
       \/ UNCHANGED vfs
    /\ wpc' = WorkerAfter(wpc)
    /\ UNCHANGED <<vpc, vin, vtemp_dir, html_content, video_result,
                   error_result, wvideo_path, video_path, mp4_path,
                   final_video_path, vraised, venc, vconverted, vreloc, vret>>
    /\ UNCHANGED <<frameVars, templateVars, saveVars>>
    /\ UNCHANGED <<rendererVars, concVars>>

\* the .webm files of temp_dir
WebmFiles(fs) == {p \in DOMAIN fs : p.dir = "temp_dir" /\ p.ext = ".webm"}

\* _record_with_playwright: the recorded file is looked for and returned, and
\* run_async stores it, or the exception  (lines 1257-1272, 984-994)
WLocate ==
    /\ wpc = "locate"
    /\ IF Exists(vfs, wvideo_path)
       THEN /\ video_result' = wvideo_path
            /\ UNCHANGED <<error_result, wvideo_path>>
       ELSE IF WebmFiles(vfs) # {}
            THEN /\ \E f \in WebmFiles(vfs) :
                        /\ wvideo_path' = f
                        /\ video_result' = f
                 /\ UNCHANGED error_result
            ELSE /\ error_result' = Exception("no recorded file")
                 /\ UNCHANGED <<video_result, wvideo_path>>
    /\ wpc' = "terminated"
    /\ UNCHANGED <<vpc, vin, vtemp_dir, vfs, html_content, video_path,
                   mp4_path, final_video_path, vraised, venc, vconverted,
                   vreloc, vret>>
    /\ UNCHANGED <<frameVars, templateVars, saveVars>>
    /\ UNCHANGED <<rendererVars, concVars>>

\* an await of _record_with_playwright raises; run_async stores the
\* exception  (lines 993-994)
WRaise ==
    /\ wpc \in WorkerRunning
    /\ error_result' = Exception("capture failed")
    /\ wpc' = "terminated"
    /\ UNCHANGED <<vpc, vin, vtemp_dir, vfs, html_content, video_result,
                   wvideo_path, video_path, mp4_path, final_video_path,
                   vraised, venc, vconverted, vreloc, vret>>
    /\ UNCHANGED <<frameVars, templateVars, saveVars>>
    /\ UNCHANGED <<rendererVars, concVars>>

\* ------------------------------------------------ record_video after start
\* a join that gives up waiting: thread.join(timeout) returns whether or not
\* the worker has terminated
VJoin_Timeout ==
    /\ vpc = "join"
    /\ vpc' = "check"
    /\ UNCHANGED <<vin, vtemp_dir, vfs, html_content, video_result,
                   error_result, wpc, wvideo_path, video_path, mp4_path,
                   final_video_path, vraised, venc, vconverted, vreloc, vret>>
    /\ UNCHANGED <<frameVars, templateVars, saveVars>>
    /\ UNCHANGED <<rendererVars, concVars>>

\* thread.join() returns once the worker has terminated  (line 1000)
VJoin ==
    /\ vpc = "join"
    /\ wpc = "terminated"
    /\ vpc' = "check"
    /\ UNCHANGED <<vin, vtemp_dir, vfs, html_content, video_result,
                   error_result, wpc, wvideo_path, video_path, mp4_path,
                   final_video_path, vraised, venc, vconverted, vreloc, vret>>
    /\ UNCHANGED <<frameVars, templateVars, saveVars>>
    /\ UNCHANGED <<rendererVars, concVars>>

\* record_video: the error slot is raised, the result slot becomes
\* video_path  (lines 1003-1016)
VCheck ==
    /\ vpc = "check"
    /\ IF error_result # None
       THEN VRaise("worker") /\ UNCHANGED video_path
       ELSE IF Exists(vfs, video_result)
            THEN /\ video_path' = video_result
                 /\ vpc' = "convert"
                 /\ UNCHANGED vraised
            ELSE IF WebmFiles(vfs) # {}
                 THEN /\ video_path' \in WebmFiles(vfs)
                      /\ vpc' = "convert"
                      /\ UNCHANGED vraised
                 ELSE VRaise("not_found") /\ UNCHANGED video_path
    /\ UNCHANGED <<vin, vtemp_dir, vfs, html_content, video_result,
                   error_result, wpc, wvideo_path, mp4_path,
                   final_video_path, venc, vconverted, vreloc, vret>>
    /\ UNCHANGED <<frameVars, templateVars, saveVars>>
    /\ UNCHANGED <<rendererVars, concVars>>

\* record_video: mp4_path and the call of _convert_to_mp4, whose value is
\* not used  (lines 1019-1020)
VConvert ==
    /\ vpc = "convert"
    /\ mp4_path' = Mp4Path
    /\ \E enc \in EncoderOutcomes, unfinished \in BOOLEAN, copy_ok \in BOOLEAN :
        LET r == _convert_to_mp4(vfs, video_path, Mp4Path, enc, unfinished, copy_ok)
        IN  /\ venc' = [outcome |-> enc, copy_ok |-> copy_ok]
            /\ vfs' = r.fs
            /\ IF r.raised
               THEN VRaise("convert") /\ vconverted' = None
               ELSE /\ vconverted' = r.output_path
                    /\ vpc' = "relocate"
                    /\ UNCHANGED vraised
    /\ UNCHANGED <<vin, vtemp_dir, html_content, video_result,
                   error_result, wpc, wvideo_path, video_path,
                   final_video_path, vreloc, vret>>
    /\ UNCHANGED <<frameVars, templateVars, saveVars>>
    /\ UNCHANGED <<rendererVars, concVars>>

\* the ticks of the clock in one second
TicksPerSecond == 2

\* datetime.now().strftime("%Y%m%d_%H%M%S") at tick t: the second t falls in
Timestamp(t) == t \div TicksPerSecond

\* os.path.join(output_dir, f"{output_filename}_{timestamp}.mp4")
\* (lines 1031-1033)
OutputPath(output_filename, timestamp) ==
    Path("output_dir", <<output_filename, timestamp>>, ".mp4")

\* How saving to the output folder ends: folder_paths cannot be imported or
\* gives no directory, or the copy is tried.
RelocOutcomes == {"no_folder_paths", "copy"}

\* record_video: final_video_path  (lines 1023-1042).  timestamp: what
\* strftime gave; how: see RelocOutcomes; copy_ok: shutil.copy2 works when
\* its source exists.
Relocate(fs, mp4, save_to_output, output_filename, timestamp, how, copy_ok) ==
    IF ~save_to_output
    THEN [final |-> mp4, fs |-> fs, ended |-> "disabled"]
    ELSE IF how = "no_folder_paths"
         THEN [final |-> mp4, fs |-> fs, ended |-> "no_folder_paths"]
         ELSE LET final == OutputPath(output_filename, timestamp)
              IN  IF Exists(fs, mp4) /\ copy_ok
                  THEN [final |-> final, fs |-> Copy2(fs, mp4, final),
                        ended |-> "copied"]
                  ELSE [final |-> final, fs |-> fs, ended |-> "copy_failed"]

VRelocate ==
    /\ vpc = "relocate"
    /\ \E how \in RelocOutcomes, copy_ok \in BOOLEAN :
        LET r == Relocate(vfs, mp4_path, vin.save_to_output,
                          vin.output_filename, Timestamp(now), how, copy_ok)
        IN  /\ final_video_path' = r.final
            /\ vfs' = r.fs
            /\ vreloc' = r.ended
    /\ vpc' = "return"
    /\ UNCHANGED <<vin, vtemp_dir, html_content, video_result,
                   error_result, wpc, wvideo_path, video_path, mp4_path,
                   vraised, venc, vconverted, vret>>
    /\ UNCHANGED <<frameVars, templateVars, saveVars>>
    /\ UNCHANGED <<rendererVars, concVars>>

\* FramesCount rounding to the nearest integer
FramesCount_Rounded(duration, fps) == (duration.n * fps + 1) \div 2

\* frames_count = int(duration_seconds * fps)  (line 1045): the product of
\* a multiple of 0.5 and an integer is exact, and int() drops its fraction
FramesCount(duration, fps) == (duration.n * fps) \div 2

\* TextPreview cutting a text of exactly PreviewLength characters too
TextPreview_AtLeast(text) ==
    IF Len(text) >= PreviewLength
    THEN SubSeq(text, 1, PreviewLength) \o Ellipsis
    ELSE text

\* text[:100] + "..." if len(text) > 100 else text  (line 1056)
TextPreview(text) ==
    IF Len(text) > PreviewLength
    THEN SubSeq(text, 1, PreviewLength) \o Ellipsis
    ELSE text

\* the value record_video returns when nothing was raised  (lines 1045-1067);
\* of video_info, the fields made of the arguments the call is given here
VideoResult(final, duration, fps, title, text) ==
    [video_path |-> final,
     frames_count |-> FramesCount(duration, fps),
     video_info |-> [video_path |-> final,
                     frames_count |-> FramesCount(duration, fps),
                     fps |-> fps,
                     duration_seconds |-> duration,
                     title |-> title,
                     text_preview |-> TextPreview(text),
                     timestamp |-> <<"current_time">>]]

\* VideoFailure with the path repeated inside the JSON
VideoFailure_WithPath(e) ==
    [video_path |-> EmptyPath, frames_count |-> 0,
     video_info |-> [error |-> e, video_path |-> EmptyPath]]

\* the value record_video's handler returns  (lines 1069-1072)
VideoFailure(e) ==
    [video_path |-> EmptyPath, frames_count |-> 0, video_info |-> [error |-> e]]

VReturn ==
    /\ vpc = "return"
    /\ vret' = VideoResult(final_video_path, vin.duration_seconds, vin.fps,
                            vin.title, vin.text)
    /\ vpc' = "done"
    /\ UNCHANGED <<vin, vtemp_dir, vfs, html_content, video_result,
                   error_result, wpc, wvideo_path, video_path, mp4_path,
                   final_video_path, vraised, venc, vconverted, vreloc>>
    /\ UNCHANGED <<frameVars, templateVars, saveVars>>
    /\ UNCHANGED <<rendererVars, concVars>>

\* record_video: except Exception  (lines 1069-1072)
VExcept ==
    /\ vpc = "except"
    /\ vret' = VideoFailure(vraised)
    /\ vpc' = "done"
    /\ UNCHANGED <<vin, vtemp_dir, vfs, html_content, video_result,
                   error_result, wpc, wvideo_path, video_path, mp4_path,
                   final_video_path, vraised, venc, vconverted, vreloc>>
    /\ UNCHANGED <<frameVars, templateVars, saveVars>>
    /\ UNCHANGED <<rendererVars, concVars>>

\* the host takes the result; the next call starts afresh
VTaken ==
    /\ vpc = "done"
    /\ vpc' = "idle"
    /\ vin' = None
    /\ vtemp_dir' = "none"
    /\ vfs' = NoFs
    /\ html_content' = <<>>
    /\ video_result' = None
    /\ error_result' = None
    /\ wpc' = "none"
    /\ wvideo_path' = None
    /\ video_path' = None
    /\ mp4_path' = None
    /\ final_video_path' = None
    /\ vraised' = "no"
    /\ venc' = None
    /\ vconverted' = None
    /\ vreloc' = "none"
    /\ vret' = None
    /\ UNCHANGED <<frameVars, templateVars, saveVars>>
    /\ UNCHANGED <<rendererVars, concVars>>

\* ------------------------------------------------ substitution on its own
\* The texts the substitution is tried on: up to MaxPieces pieces.
MaxPieces == 2
\* a placeholder of each kind of key, a word that is no placeholder, and a
\* word that happens to be the name of a key
TemplatePieces ==
    { Placeholder("title"), Placeholder("text"), Placeholder("k"), <<"x">>,
      <<"text">> }
RECURSIVE PiecesUpTo(_)
PiecesUpTo(n) ==
    IF n = 0 THEN { <<>> }
    ELSE PiecesUpTo(n - 1) \cup
         { t \o q : t \in PiecesUpTo(n - 1), q \in TemplatePieces }
TemplateTexts == PiecesUpTo(MaxPieces)
TitleTexts == { <<"Hi">>, Placeholder("text"), Placeholder("title"), Placeholder("k") }
BodyTexts == { <<"T">>, Placeholder("title"), Placeholder("k"), <<"title">> }
TemplateExtJsons ==
    { JsonMalformed, JsonBlank,
      JsonObject(<<[k |-> "k", v |-> StrVal(<<"K">>)]>>),
      JsonObject(<<[k |-> "k", v |-> StrVal(Placeholder("text"))]>>),
      JsonObject(<<[k |-> "title", v |-> StrVal(<<"E">>)]>>) }

\* the replacements _build_html_content makes, in the order it makes them
\* (lines 1158-1168)
VideoReplacements(title, text, duration, fps, image_base64, current_time, ext_entries) ==
    << [k |-> "title", v |-> StrVal(title)],
       [k |-> "text", v |-> StrVal(text)],
       [k |-> "duration", v |-> duration],
       [k |-> "fps", v |-> IntVal(fps)],
       [k |-> "current_time", v |-> StrVal(current_time)],
       [k |-> "image_url", v |-> StrVal(image_base64)] >> \o ext_entries

\* generate_frame resolves a template as render_frame calls it
\* (lines 401-409, 505-516)
ResolveFrame ==
    /\ tpc = "idle"
    /\ fpc = "idle"
    /\ vpc = "idle"
    /\ SaveUntouched
    /\ RendererUntouched
    /\ ConcurrentUntouched
    /\ \E tpl \in TemplateTexts, title \in TitleTexts, text \in BodyTexts,
          ej \in TemplateExtJsons, w \in 1..MaxDim, h \in 1..MaxDim :
        LET ext == FrameExtParams(ej, w, h)
            context == FrameContext(title, text, "input_image.png", ext.entries)
        IN  /\ ~ext.raised
            /\ tin' = [path |-> "frame", template |-> tpl, ext_json |-> ej,
                       replacements |-> context]
            /\ tout' = _replace_parameters(tpl, context)
    /\ tpc' = "resolved"
    /\ UNCHANGED <<frameVars, videoVars, saveVars>>
    /\ UNCHANGED <<rendererVars, concVars>>

\* _build_html_content resolves a template as record_video calls it
\* (lines 947-968, 1157-1168)
ResolveVideo ==
    /\ tpc = "idle"
    /\ fpc = "idle"
    /\ vpc = "idle"
    /\ SaveUntouched
    /\ RendererUntouched
    /\ ConcurrentUntouched
    /\ \E tpl \in TemplateTexts, title \in TitleTexts, text \in BodyTexts,
          ej \in TemplateExtJsons, d \in Durations, f \in FpsValues :
        LET ext == VideoExtParams(ej)
        IN  /\ ext.dict
            /\ tin' = [path |-> "video", template |-> tpl, ext_json |-> ej,
                       replacements |->
                           VideoReplacements(title, text, FloatVal(d), f,
                               <<"data:image/png">>, <<"current_time">>,
                               ext.entries)]
            /\ tout' = _build_html_content(tpl, title, text, FloatVal(d), f,
                           <<"data:image/png">>, <<"current_time">>, ext.entries)
    /\ tpc' = "resolved"
    /\ UNCHANGED <<frameVars, videoVars, saveVars>>
    /\ UNCHANGED <<rendererVars, concVars>>

\* the resolved text is taken
TTaken ==
    /\ tpc = "resolved"
    /\ tpc' = "idle"
    /\ tin' = None
    /\ tout' = <<>>
    /\ UNCHANGED <<frameVars, videoVars, saveVars>>
    /\ UNCHANGED <<rendererVars, concVars>>


\* ------------------------------------------------------- the output folder
\* The relocations of one output folder, one after another: save_video, and
\* lines 1023-1042 of record_video.
MaxClock == 2       \* the ticks the clock goes through
MaxSaves == 2       \* the relocations made into the folder

\* the files there are before any relocation: an encoded video, a recording
\* kept in its own container, and a video whose name has no extension
SourceFiles ==
    (Mp4Path :> Encoded) @@ (ReplaceMp4ByWebm(Mp4Path) :> Recorded)
        @@ (Path("temp_dir", "clip", "") :> Encoded)

\* the video_path values save_video is given: the files above, a path at
\* which there is no file, and ""
SavePaths == DOMAIN SourceFiles \cup {Path("temp_dir", "missing", ".mp4"), EmptyPath}

\* the output_filename values: the default, and blanks
SaveFilenames == {"video_output", "  "}

\* the video_info_json values: "{}", text that is not JSON, JSON that is not
\* an object
SaveInfoJsons == {JsonObject(<<>>), JsonMalformed, JsonOther}

\* output_filename.strip()
Strip(name) == IF name = "  " THEN "" ELSE name

\* _, ext = os.path.splitext(video_path); if not ext: ext = ".mp4"
\* (lines 1394-1396)
SaveExt(path) == IF path.ext = "" THEN ".mp4" ELSE path.ext

\* safe_filename  (lines 1399-1401)
SafeFilename(output_filename) ==
    IF Strip(output_filename) = "" THEN "video_output" ELSE Strip(output_filename)

\* final_path  (lines 1404-1405)
FinalPath(output_filename, timestamp, ext) ==
    Path("output_dir", <<SafeFilename(output_filename), timestamp>>, ext)

\* what save_video returns when it gives up  (lines 1383, 1421)
SaveFailure(video_info_json) ==
    [saved_video_path |-> EmptyPath, video_info_json |-> video_info_json]

\* save_video after the copy: video_info gets saved_path and
\* saved_timestamp; text that does not load counts as {}, a loaded value
\* that is no dict raises at the item assignment  (lines 1409-1421)
SavedInfo(video_info_json, final, timestamp) ==
    LET r == JsonLoads(video_info_json)
        video_info == IF r.raised THEN <<>> ELSE r.entries
    IN  IF ~r.raised /\ ~r.dict
        THEN SaveFailure(video_info_json)
        ELSE [saved_video_path |-> final,
              video_info_json |->
                  JsonObject(DictSet(DictSet(video_info, "saved_path", final),
                                     "saved_timestamp", timestamp))]

\* the clock goes on
Tick ==
    /\ fpc = "idle" /\ vpc = "idle" /\ tpc = "idle"
    /\ RendererUntouched
    /\ ConcurrentUntouched
    /\ now < MaxClock
    /\ now' = now + 1
    /\ UNCHANGED <<sfs, spc, sin, final_path, sreplaced, sret, saves>>
    /\ UNCHANGED <<frameVars, videoVars, templateVars>>
    /\ UNCHANGED <<rendererVars, concVars>>

\* save_video is called: it gives up when there is no such file or when
\* folder_paths cannot be imported, and otherwise reads the clock and makes
\* final_path  (lines 1367-1401)
SaveVideoCall ==
    /\ spc = "idle"
    /\ fpc = "idle" /\ vpc = "idle" /\ tpc = "idle"
    /\ RendererUntouched
    /\ ConcurrentUntouched
    /\ saves < MaxSaves
    /\ saves' = saves + 1
    /\ \E path \in SavePaths, name \in SaveFilenames, info \in SaveInfoJsons :
        /\ sin' = [op |-> "save_video", video_path |-> path,
                   output_filename |-> name, video_info_json |-> info]
        /\ IF path = EmptyPath \/ ~Exists(sfs, path)
           THEN /\ sret' = SaveFailure(info)
                /\ spc' = "done"
                /\ UNCHANGED final_path
           ELSE \/ /\ final_path' = FinalPath(name, Timestamp(now), SaveExt(path))
                   /\ spc' = "copy"
                   /\ UNCHANGED sret
                \/ /\ sret' = SaveFailure(info)
                   /\ spc' = "done"
                   /\ UNCHANGED final_path
    /\ UNCHANGED <<now, sfs, sreplaced>>
    /\ UNCHANGED <<frameVars, videoVars, templateVars>>
    /\ UNCHANGED <<rendererVars, concVars>>

\* save_video: shutil.copy2(video_path, final_path), the metadata and the
\* return; an exception of the copy ends in the handler  (lines 1403-1421)
SaveCopy ==
    /\ spc = "copy"
    /\ sin.op = "save_video"
    /\ \/ /\ sreplaced' = IF Exists(sfs, final_path) THEN sfs[final_path] ELSE None
          /\ sfs' = Copy2(sfs, sin.video_path, final_path)
          /\ sret' = SavedInfo(sin.video_info_json, final_path, Timestamp(now))
       \/ /\ sret' = SaveFailure(sin.video_info_json)
          /\ UNCHANGED <<sfs, sreplaced>>
    /\ spc' = "done"
    /\ UNCHANGED <<now, sin, final_path, saves>>
    /\ UNCHANGED <<frameVars, videoVars, templateVars>>
    /\ UNCHANGED <<rendererVars, concVars>>

\* the output_filename values of record_video: its default, and the default
\* of save_video
RecorderFilenames == {"html_video_output", "video_output"}

\* record_video with save_to_output reaches line 1023 with its video at
\* mp4_path, reads the clock and copies  (lines 1023-1042)
RecorderRelocate ==
    /\ spc = "idle"
    /\ fpc = "idle" /\ vpc = "idle" /\ tpc = "idle"
    /\ RendererUntouched
    /\ ConcurrentUntouched
    /\ saves < MaxSaves
    /\ saves' = saves + 1
    /\ \E name \in RecorderFilenames, how \in RelocOutcomes, copy_ok \in BOOLEAN :
        LET r == Relocate(sfs, Mp4Path, TRUE, name, Timestamp(now), how, copy_ok)
        IN  /\ sin' = [op |-> "record_video", video_path |-> Mp4Path,
                       output_filename |-> name, video_info_json |-> JsonObject(<<>>)]
            /\ final_path' = r.final
            /\ sreplaced' = IF r.ended = "copied" /\ Exists(sfs, r.final)
                            THEN sfs[r.final] ELSE None
            /\ sfs' = r.fs
            /\ sret' = [saved_video_path |-> r.final,
                        video_info_json |-> JsonObject(<<>>)]
    /\ spc' = "done"
    /\ UNCHANGED now
    /\ UNCHANGED <<frameVars, videoVars, templateVars>>
    /\ UNCHANGED <<rendererVars, concVars>>

\* the host takes the result; the files and the clock stay
STaken ==
    /\ spc = "done"
    /\ spc' = "idle"
    /\ sin' = None
    /\ final_path' = None
    /\ sreplaced' = None
    /\ sret' = None
    /\ UNCHANGED <<now, sfs, saves>>
    /\ UNCHANGED <<frameVars, videoVars, templateVars>>
    /\ UNCHANGED <<rendererVars, concVars>>

SaveIdle ==
    /\ now = 0
    /\ sfs = SourceFiles
    /\ spc = "idle"
    /\ sin = None
    /\ final_path = None
    /\ sreplaced = None
    /\ sret = None
    /\ saves = 0

\* ------------------------------------- concurrent record_video invocations
\* Several record_video invocations run at once, on one node object or on
\* several: what each keeps in locals, what its thread closes over, and the
\* directory of temporary files they all write to.
MaxInvocations == 2
Invocations == 1..MaxInvocations

\* the directories tempfile.mkdtemp can make
TempDirs == 1..MaxInvocations

\* a directory that is not there; one that was just made
NoDir == [exists |-> FALSE, content_html |-> None, webm |-> None]
EmptyDir == [exists |-> TRUE, content_html |-> None, webm |-> None]

\* tempfile.mkdtemp(prefix="comfyui_video_recorder_"): a directory that did
\* not exist  (line 940)
Mkdtemp(fs) == {d \in DOMAIN fs : ~fs[d].exists}

\* the html_content invocation i builds from its arguments (lines 962-967)
Page(i) == [t |-> "Page", of |-> i]

\* what the browser records of a page
Recording(page) == [t |-> "Recording", of |-> page]

\* the recorded file in the directory dir
WebmIn(dir) == [dir |-> dir, name |-> "recording.webm"]

\* the exception an await of the thread of invocation i raised
CaptureError(i) == [t |-> "Exception", msg |-> "capture failed", thread |-> i]

\* slots kept on the node object, which every invocation shares
SlotsOf_OnInstance(i) == 1

\* the video_result and error_result lists of invocation i: made by the
\* invocation, local to it, and closed over by its run_async
\* (lines 976-979)
SlotsOf(i) == i

NoSlots == [video_result |-> None, error_result |-> None]
NoCall == [pc |-> "idle", temp_dir |-> 0, got |-> None]
NoWorker == [pc |-> "none", temp_dir |-> 0, page |-> None, stored |-> None]

ConcurrentIdle ==
    /\ calls = [i \in Invocations |-> NoCall]
    /\ slots = [i \in Invocations |-> NoSlots]
    /\ workers = [i \in Invocations |-> NoWorker]
    /\ tmpfs = [d \in TempDirs |-> NoDir]

\* record_video is called while other invocations may be under way
\* (line 926)
CCall(i) ==
    /\ calls[i].pc = "idle"
    /\ fpc = "idle" /\ vpc = "idle" /\ tpc = "idle"
    /\ SaveUntouched
    /\ RendererUntouched
    /\ calls' = [calls EXCEPT ![i].pc = "mkdtemp"]
    /\ UNCHANGED <<slots, workers, tmpfs>>
    /\ UNCHANGED <<frameVars, videoVars, templateVars, saveVars, rendererVars>>

\* temp_dir = tempfile.mkdtemp(...)  (line 940)
CMkdtemp(i) ==
    /\ calls[i].pc = "mkdtemp"
    /\ \E d \in Mkdtemp(tmpfs) :
        /\ tmpfs' = [tmpfs EXCEPT ![d] = EmptyDir]
        /\ calls' = [calls EXCEPT ![i].temp_dir = d, ![i].pc = "write_html"]
    /\ UNCHANGED <<slots, workers>>
    /\ UNCHANGED <<frameVars, videoVars, templateVars, saveVars, rendererVars>>

\* html_content is built and written to temp_dir/content.html
\* (lines 962-973)
CWriteHtml(i) ==
    /\ calls[i].pc = "write_html"
    /\ tmpfs' = [tmpfs EXCEPT ![calls[i].temp_dir].content_html = Page(i)]
    /\ calls' = [calls EXCEPT ![i].pc = "start"]
    /\ UNCHANGED <<slots, workers>>
    /\ UNCHANGED <<frameVars, videoVars, templateVars, saveVars, rendererVars>>

\* the two slots are made and the thread is started with run_async, which
\* closes over the slots, html_path and temp_dir  (lines 976-999)
CStart(i) ==
    /\ calls[i].pc = "start"
    /\ slots' = [slots EXCEPT ![SlotsOf(i)] = NoSlots]
    /\ workers' = [workers EXCEPT ![i] =
                      [pc |-> "launch", temp_dir |-> calls[i].temp_dir,
                       page |-> None, stored |-> None]]
    /\ calls' = [calls EXCEPT ![i].pc = "join"]
    /\ UNCHANGED tmpfs
    /\ UNCHANGED <<frameVars, videoVars, templateVars, saveVars, rendererVars>>

\* the thread: a new event loop, a browser of its own and a context that
\* records into temp_dir  (lines 982-983, 1213-1233)
CWLaunch(i) ==
    /\ workers[i].pc = "launch"
    /\ workers' = [workers EXCEPT ![i].pc = "load"]
    /\ UNCHANGED <<calls, slots, tmpfs>>
    /\ UNCHANGED <<frameVars, videoVars, templateVars, saveVars, rendererVars>>

\* page.goto(file://html_path), the waits and the hold: the browser shows
\* what content.html of temp_dir holds  (lines 1236-1243)
CWLoad(i) ==
    /\ workers[i].pc = "load"
    /\ workers' = [workers EXCEPT
                      ![i].page = tmpfs[workers[i].temp_dir].content_html,
                      ![i].pc = "close"]
    /\ UNCHANGED <<calls, slots, tmpfs>>
    /\ UNCHANGED <<frameVars, videoVars, templateVars, saveVars, rendererVars>>

\* context.close() writes the recording into record_video_dir, then the
\* browser is closed  (lines 1251-1255)
CWClose(i) ==
    /\ workers[i].pc = "close"
    /\ tmpfs' = [tmpfs EXCEPT
                    ![workers[i].temp_dir].webm = Recording(workers[i].page)]
    /\ workers' = [workers EXCEPT ![i].pc = "store"]
    /\ UNCHANGED <<calls, slots>>
    /\ UNCHANGED <<frameVars, videoVars, templateVars, saveVars, rendererVars>>

\* the recorded file of temp_dir is returned and run_async stores it:
\* video_result[0] = result  (lines 1257-1272, 991)
CWStore(i) ==
    /\ workers[i].pc = "store"
    /\ slots' = [slots EXCEPT
                    ![SlotsOf(i)].video_result = WebmIn(workers[i].temp_dir)]
    /\ workers' = [workers EXCEPT
                      ![i].stored = WebmIn(workers[i].temp_dir),
                      ![i].pc = "terminated"]
    /\ UNCHANGED <<calls, tmpfs>>
    /\ UNCHANGED <<frameVars, videoVars, templateVars, saveVars, rendererVars>>

\* an await of the thread raises and run_async stores the exception:
\* error_result[0] = e  (lines 993-994)
CWRaise(i) ==
    /\ workers[i].pc \in {"launch", "load", "close", "store"}
    /\ slots' = [slots EXCEPT ![SlotsOf(i)].error_result = CaptureError(i)]
    /\ workers' = [workers EXCEPT
                      ![i].stored = CaptureError(i),
                      ![i].pc = "terminated"]
    /\ UNCHANGED <<calls, tmpfs>>
    /\ UNCHANGED <<frameVars, videoVars, templateVars, saveVars, rendererVars>>

\* thread.join() returns once the invocation's own thread has terminated
\* (line 1000)
CJoin(i) ==
    /\ calls[i].pc = "join"
    /\ workers[i].pc = "terminated"
    /\ calls' = [calls EXCEPT ![i].pc = "read"]
    /\ UNCHANGED <<slots, workers, tmpfs>>
    /\ UNCHANGED <<frameVars, videoVars, templateVars, saveVars, rendererVars>>

\* the invocation reads its slots: the exception if one is set, else the
\* path  (lines 1003-1007)
CRead(i) ==
    /\ calls[i].pc = "read"
    /\ LET mine == slots[SlotsOf(i)]
       IN  calls' = [calls EXCEPT
                        ![i].got = IF mine.error_result # None
                                   THEN mine.error_result
                                   ELSE mine.video_result,
                        ![i].pc = "done"]
    /\ UNCHANGED <<slots, workers, tmpfs>>
    /\ UNCHANGED <<frameVars, videoVars, templateVars, saveVars, rendererVars>>

Init ==
    /\ offset \in OffsetValues
    /\ FrameIdle
    /\ VideoIdle
    /\ TemplateIdle
    /\ SaveIdle
    /\ sessions = 0
    /\ ConcurrentIdle

\* ------------------------------------------------------------ specification
NextFrame ==
    \/ RenderFrameCall \/ FMkdtemp \/ FWriteInputs \/ FParseExt
    \/ FCreateGenerator \/ FResolve \/ FEnsureHti \/ FScreenshot \/ FCrop
    \/ FRemoveRaw \/ FLoadAndSave \/ FCleanupReturn \/ FExcept \/ FTaken

NextVideo ==
    \/ RecordVideoCall \/ VMkdtemp \/ VBuild \/ VWriteHtml \/ VStart
    \/ WAwait \/ WVideoPath \/ WCloseContext \/ WLocate \/ WRaise
    \/ VJoin \/ VCheck \/ VConvert \/ VRelocate \/ VReturn \/ VExcept
    \/ VTaken

NextTemplate == ResolveFrame \/ ResolveVideo \/ TTaken

NextSave == Tick \/ SaveVideoCall \/ SaveCopy \/ RecorderRelocate \/ STaken

NextConcurrent ==
    \E i \in Invocations :
        \/ CCall(i) \/ CMkdtemp(i) \/ CWriteHtml(i) \/ CStart(i)
        \/ CWLaunch(i) \/ CWLoad(i) \/ CWClose(i) \/ CWStore(i) \/ CWRaise(i)
        \/ CJoin(i) \/ CRead(i)

Next == NextFrame \/ NextVideo \/ NextTemplate \/ NextSave \/ NextConcurrent

Spec == Init /\ [][Next]_vars

\* render_frame alone, record_video alone
SpecFrame == Init /\ [][NextFrame]_vars
SpecVideo == Init /\ [][NextVideo]_vars

\* the substitution alone
SpecTemplate == Init /\ [][NextTemplate]_vars

\* the relocations into the output folder alone
SpecSave == Init /\ [][NextSave]_vars

\* record_video invocations running at once
SpecConcurrent == Init /\ [][NextConcurrent]_vars

\* =================================================================== claims

\* the sibling of the requested .mp4 that carries the recording's extension
FallbackPath == ReplaceMp4ByWebm(Mp4Path)

\* C1: when the encoder exits with a nonzero status and the recorded file
\* exists, the recorded file is copied unchanged to the sibling .webm path,
\* that path is what _convert_to_mp4 ends with, and the path record_video
\* goes on with and returns is that fallback path, not the .mp4 path.
C1_FallbackPathReturned ==
    (vpc = "done" /\ vraised = "no" /\ venc # None /\ venc.outcome = "exit_nonzero")
    => /\ Exists(vfs, FallbackPath)
       /\ vfs[FallbackPath] = Recorded
       /\ vconverted = FallbackPath
       /\ vret.video_path # Mp4Path
       /\ (vreloc \in {"disabled", "no_folder_paths"}
              => vret.video_path = FallbackPath)

\* C2: whenever the encoder cannot be invoked at all or fails (and the copy
\* of the recording itself works), _convert_to_mp4 raises nothing, the
\* fallback copy of the recording exists, and record_video does not return
\* its failure output.
C2_TranscodeNeverFatal ==
    (venc # None /\ venc.outcome \in {"exit_nonzero", "not_found", "os_error"}
       /\ venc.copy_ok)
    => /\ vraised = "no"
       /\ Exists(vfs, FallbackPath)
       /\ vfs[FallbackPath] = Recorded
       /\ (vpc = "done" => vret.video_path # EmptyPath)

\* C3: when save_to_output is set and saving into the output directory
\* fails (no folder_paths, or the copy fails), record_video succeeds and the
\* path it returns and writes in the metadata is the path of the video in
\* the temporary workspace.
C3_PersistFailureKeepsTempPath ==
    (vpc = "done" /\ vin.save_to_output
       /\ vreloc \in {"no_folder_paths", "copy_failed"})
    => /\ vraised = "no"
       /\ vret.video_path = mp4_path
       /\ vret.video_path.dir = "temp_dir"
       /\ vret.video_info.video_path = vret.video_path

\* C4: when render_frame or record_video has ended, by success or by
\* failure, the temporary workspace it created has been removed, unless the
\* removal itself failed.
C4_WorkspaceRemoved ==
    /\ (fpc = "done" /\ temp_dir # "none" /\ ~rmtree_failed)
          => temp_dir = "removed"
    /\ (vpc = "done" /\ vtemp_dir # "none") => vtemp_dir = "removed"

\* C5: a render_frame that failed at any step returns the images of its
\* input unchanged, all of them when the input is a batch, with an empty
\* path.
C5_FailedRenderReturnsInput ==
    (fpc = "done" /\ fraised # "no")
    => /\ fret.image.frames = fin.image.frames
       /\ fret.image_path = ""

\* C6: a failure at any step of record_video (an error of the worker, no
\* recorded file, any other exception) is handled inside record_video, which
\* then returns exactly an empty path, a frame count of zero and a JSON
\* object whose only field is error.
C6_FailureOutput ==
    /\ vraised # "no" => vpc \in {"except", "done"}
    /\ (error_result # None /\ vpc \notin {"join", "check"})
          => vpc \in {"except", "done"} /\ vraised = "worker"
    /\ (vpc = "done" /\ vraised # "no")
          => /\ vret.video_path = EmptyPath
             /\ vret.frames_count = 0
             /\ DOMAIN vret.video_info = {"error"}
             /\ DOMAIN vret = {"video_path", "frames_count", "video_info"}

\* C6's case: the worker reported a capture error and record_video returned
C6_Witness ==
    /\ vpc = "done"
    /\ vraised = "worker"
    /\ error_result = Exception("capture failed")
    /\ vret = VideoFailure("worker")

C8_CaptureSurface ==
    /\ generator.hti # None
          => generator.hti.size = <<fin.output_width, fin.output_height + offset>>
    /\ ffiles.output_frame # None
          => /\ ffiles.output_frame.w = fin.output_width
             /\ ffiles.output_frame.h = fin.output_height

\* C8's case: the frame was captured and cropped with the shipped offset
C8_Witness ==
    /\ fpc = "remove_raw"
    /\ offset = CHROMIUM_HEIGHT_OFFSET
    /\ fin.output_width = 2
    /\ fin.output_height = 1
    /\ generator.hti.size = <<2, 1 + CHROMIUM_HEIGHT_OFFSET>>
    /\ ffiles.output_frame # None

\* C9: for a raw capture of size (width, height + offset), row i of the
\* cropped bitmap is row i of the raw capture for every i below height, and
\* no raw row at index height or beyond is in the cropped bitmap.
C9_CropTopLeft ==
    (/\ fpc = "remove_raw"
     /\ ffiles.raw.w = fin.output_width
     /\ ffiles.raw.h = fin.output_height + offset)
    => LET raw == ffiles.raw
           cropped == ffiles.output_frame
       IN  /\ cropped.w = fin.output_width
           /\ cropped.h = fin.output_height
           /\ \A i \in 1..fin.output_height : cropped.rows[i] = raw.rows[i]
           /\ cropped.rows[cropped.h] = raw.rows[fin.output_height]
           /\ \A i \in 1..cropped.h :
                \A j \in (fin.output_height + 1)..raw.h :
                    cropped.rows[i] # raw.rows[j]

\* C9's case: a raw capture of full size, two rows of which are kept
C9_Witness ==
    /\ fpc = "remove_raw"
    /\ offset = CHROMIUM_HEIGHT_OFFSET
    /\ fin.output_height = 2
    /\ ffiles.raw.h = 2 + CHROMIUM_HEIGHT_OFFSET
    /\ ffiles.raw.w = fin.output_width
    /\ ffiles.output_frame.h = 2

\* text s holds a placeholder {{x}}
HasPlaceholder(s) ==
    \E j \in 1..Len(s) :
        /\ j + 4 <= Len(s)
        /\ s[j] = "{" /\ s[j + 1] = "{" /\ s[j + 3] = "}" /\ s[j + 4] = "}"

\* C10: when a key's placeholder is in the template and the value put in
\* its place itself holds a placeholder {{x}}, the value is in the output
\* verbatim, x being another key or not.
C10_NotRecursive ==
    tpc = "resolved"
    => \A i \in 1..Len(tin.replacements) :
          LET e == tin.replacements[i]
          IN  (/\ \A j \in 1..(i - 1) : tin.replacements[j].k # e.k
               /\ Contains(tin.template, Placeholder(e.k))
               /\ HasPlaceholder(Str(e.v)))
              => Contains(tout, Str(e.v))

\* ------------------------------------------------- C11..C14: substitution
\* the context without its i-th entry
Without(values, i) == SubSeq(values, 1, i - 1) \o SubSeq(values, i + 1, Len(values))

\* the text a path makes of a template and its replacements in order
ResolveAs(path, template, replacements) ==
    LET h == _replace_parameters(template, replacements)
    IN  IF path = "video"
        THEN StrReplace(h, <<"</body>">>, AnimationScript \o <<"</body>">>)
        ELSE h

\* C11: for a key k of the context whose placeholder {{k}} does not occur in
\* the template, the output is the output of resolving with the context
\* without k.
C11_UnusedKeyIrrelevant ==
    (tpc = "resolved" /\ tin.path = "frame")
    => \A i \in 1..Len(tin.replacements) :
          ~Contains(tin.template, Placeholder(tin.replacements[i].k))
          => tout = _replace_parameters(tin.template, Without(tin.replacements, i))

\* the fixed fields of each path's context
FixedFields(path) ==
    IF path = "frame" THEN {"title", "text", "image"}
    ELSE {"title", "text", "duration", "fps", "current_time", "image_url"}

\* C12: in the still-frame path and in the video path, when ext_json has a
\* key that is also a fixed field and whose placeholder is in the template,
\* that placeholder resolves to the value of ext_json: the output is what it
\* would be with the placeholder already replaced by that value.
C12_ExtOverridesFixed ==
    tpc = "resolved"
    => LET ext == JsonLoads(tin.ext_json).entries
       IN  \A i \in 1..Len(ext) :
              (/\ ext[i].k \in FixedFields(tin.path)
               /\ Contains(tin.template, Placeholder(ext[i].k)))
              => tout = ResolveAs(tin.path,
                                  StrReplace(tin.template, Placeholder(ext[i].k),
                                             Str(ext[i].v)),
                                  tin.replacements)

\* Every {{key}} of text s with key in the context replaced by the string
\* form of the key's value, everything else of s kept: one pass over s.
RECURSIVE ResolveAtOnce(_, _)
ResolveAtOnce(s, context) ==
    IF s = <<>> THEN <<>>
    ELSE IF /\ Len(s) >= Len(Placeholder("k"))
            /\ s[1] = "{" /\ s[2] = "{" /\ s[4] = "}" /\ s[5] = "}"
            /\ s[3] \in DictKeys(context)
         THEN Str(DictVal(context, s[3]))
                  \o ResolveAtOnce(SubSeq(s, Len(Placeholder("k")) + 1, Len(s)), context)
         ELSE <<s[1]>> \o ResolveAtOnce(Tail(s), context)

\* C13: the output is the template with every occurrence of {{key}}, for
\* every key of the context, replaced by the string form of the key's value,
\* every other placeholder left verbatim and nothing else changed.
C13_ResolveReplacesExactly ==
    (tpc = "resolved" /\ tin.path = "frame")
    => tout = ResolveAtOnce(tin.template, tin.replacements)

\* text s holds the placeholder {{key}}
HasPlaceholderOf(s, key) ==
    \E j \in 1..Len(s) :
        /\ j + 4 <= Len(s)
        /\ s[j] = "{" /\ s[j + 1] = "{" /\ s[j + 2] = key
        /\ s[j + 3] = "}" /\ s[j + 4] = "}"

\* the output holds no placeholder of a key of the context
Consumed == \A i \in 1..Len(tin.replacements) :
                ~HasPlaceholderOf(tout, tin.replacements[i].k)

\* C14: when the output holds no placeholder of a key of the context,
\* resolving the output again with the same context gives the output.
C14_Idempotent ==
    (tpc = "resolved" /\ tin.path = "frame" /\ Consumed)
    => _replace_parameters(tout, tin.replacements) = tout

\* C14's case: placeholders of the template were replaced, one of them by a
\* text that is the name of a key, and none is left
C14_Witness ==
    /\ tpc = "resolved"
    /\ tin.path = "frame"
    /\ Consumed
    /\ tin.template = Placeholder("title") \o Placeholder("text")
    /\ tout = <<"Hi", "title">>

\* ------------------------------------------------ C15, C16: the metadata
\* C15: a successful record_video returns frames_count equal to
\* floor(duration_seconds * fps), the integer n with
\* n <= duration_seconds * fps < n + 1, and writes the same value in the
\* metadata; and int(duration_seconds * fps) is that integer for every valid
\* pair (duration_seconds from 3.0 to 120.0 in steps of 0.5, fps from 1 to 60).
C15_FramesCountIsFloor ==
    /\ (vpc = "done" /\ vraised = "no")
          => LET halves == vin.duration_seconds.n * vin.fps
                 n == vret.frames_count
             IN  /\ 2 * n <= halves
                 /\ halves < 2 * n + 2
                 /\ vret.video_info.frames_count = n
    /\ vin = None
          => \A d \in ValidDurations, f \in ValidFps :
                LET n == FramesCount(FloatVal(d), f)
                IN  2 * n <= d * f /\ d * f < 2 * n + 2

\* C15's case: 3.5 seconds at 24 frames a second were recorded: 84 frames
C15_Witness ==
    /\ vpc = "done"
    /\ vraised = "no"
    /\ vin.duration_seconds = FloatVal(7)
    /\ vin.fps = 24
    /\ vret.frames_count = 84

\* C16: the text preview of the metadata is the first 100 characters of the
\* body text followed by the ellipsis marker when the text is longer than
\* 100 characters, and the text itself when it is not.
C16_TextPreview ==
    (vpc = "done" /\ vraised = "no")
    => LET preview == vret.video_info.text_preview
           text == vin.text
       IN  IF Len(text) > PreviewLength
           THEN /\ Len(preview) = PreviewLength + Len(Ellipsis)
                /\ \A i \in 1..PreviewLength : preview[i] = text[i]
                /\ SubSeq(preview, PreviewLength + 1, Len(preview)) = Ellipsis
           ELSE preview = text

\* C16's case: a body text of 101 characters was cut
C16_Witness ==
    /\ vpc = "done"
    /\ vraised = "no"
    /\ Len(vin.text) = PreviewLength + 1
    /\ Len(vret.video_info.text_preview) = PreviewLength + Len(Ellipsis)

\* ------------------------------------------------------ C17: ext_json
\* a text that is not valid JSON
InvalidJson(text) == text.kind \in {"malformed", "too_deep", "blank"}

\* the text "{}"
EmptyObject == JsonObject(<<>>)

\* C17: when ext_json is not valid JSON, render_frame and record_video raise
\* nothing because of it, and what they go on with (ext_params, the resolved
\* html) is what they go on with when ext_json is "{}".
C17_InvalidExtJsonAsEmpty ==
    /\ (fin # None /\ InvalidJson(fin.ext_json))
          => /\ fraised # "parse_ext"
             /\ fpc = "create_generator"
                   => ext_params = FrameExtParams(EmptyObject, fin.output_width,
                                                  fin.output_height).entries
             /\ fpc = "ensure_hti"
                   => html = _replace_parameters(
                                 fin.template_html,
                                 FrameContext(fin.title, fin.text, "input_image.png",
                                     FrameExtParams(EmptyObject, fin.output_width,
                                                    fin.output_height).entries))
    /\ (vin # None /\ InvalidJson(vin.ext_json))
          => /\ vraised # "build"
             /\ vpc = "write_html"
                   => html_content = _build_html_content(
                          vin.template_html, vin.title, vin.text,
                          vin.duration_seconds, vin.fps, <<"data:image/png">>,
                          <<"current_time">>, VideoExtParams(EmptyObject).entries)

\* ------------------------------------------- C18, C19: the output folder
\* C18: a relocation never overwrites a file of the output folder: whatever
\* relocations came before it, with the same base name or another, the copy
\* finds no file at its final path.
C18_NeverOverwrites ==
    spc = "done" => sreplaced = None

\* the file record_video has made when it reaches the relocation: what
\* _convert_to_mp4 ended with
Artifact == vconverted

\* C19: a relocation that copied named the final file by the base name, the
\* timestamp and the extension of the file it relocates, the fallback file
\* in the recording's container included; the final file is a copy of that
\* file, which is still there unchanged; and the final path is returned.
C19_RelocationContract ==
    /\ (spc = "done" /\ sin.op = "save_video" /\ final_path # None
           /\ Exists(sfs, final_path))
          => /\ final_path.dir = "output_dir"
             /\ final_path.stem[1] \in {Strip(sin.output_filename), "video_output"}
             /\ final_path.stem[2] = Timestamp(now)
             /\ sin.video_path.ext # "" => final_path.ext = sin.video_path.ext
             /\ sfs[final_path] = SourceFiles[sin.video_path]
             /\ Exists(sfs, sin.video_path)
             /\ sfs[sin.video_path] = SourceFiles[sin.video_path]
             /\ sret.saved_video_path = final_path
    /\ (vpc = "done" /\ vraised = "no" /\ vreloc = "copied")
          => /\ vret.video_path = final_video_path
             /\ final_video_path.dir = "output_dir"
             /\ final_video_path.stem = <<vin.output_filename, Timestamp(now)>>
             /\ Exists(vfs, Artifact)
             /\ final_video_path.ext = Artifact.ext
             /\ vfs[final_video_path] = vfs[Artifact]

\* ------------------------------------------------- C20: failing deletions
\* C20: when the cropped frame was produced and deleting the raw capture
\* file, or the temporary workspace, fails, render_frame still returns the
\* rendered image and its non-empty path.
C20_DeleteFailureNotFatal ==
    (fpc = "done" /\ (fraised = "remove_raw" \/ rmtree_failed))
    => /\ fret.image_path # ""
       /\ fret.image = ToTensor(ffiles.output_frame)

\* ------------------------------------------------- C21: the worker thread
\* the steps of record_video after thread.join()
AfterJoin == {"check", "convert", "relocate", "return"}

\* C21: record_video starts its one worker at the start step and waits for it
\* without a timeout: while the worker runs record_video stands at the join,
\* and it has not read a slot, located the recording, transcoded or returned;
\* once the worker has terminated exactly one of the two slots is set, the
\* path of a recorded file or the exception; a set exception ends in the
\* failure output.
C21_JoinBeforeRead ==
    /\ wpc \in WorkerRunning
          => /\ vpc = "join"
             /\ video_result = None /\ error_result = None
             /\ video_path = None /\ venc = None /\ vconverted = None
             /\ vret = None
    /\ vpc \in AfterJoin => wpc = "terminated"
    /\ (vpc \in {"except", "done"} /\ wpc # "none") => wpc = "terminated"
    /\ wpc = "none" => vpc \notin AfterJoin \cup {"join"}
    /\ wpc = "terminated"
          => /\ (video_result = None) # (error_result = None)
             /\ video_result # None => Exists(vfs, video_result)
    /\ (vpc = "done" /\ error_result # None)
          => /\ vraised = "worker"
             /\ vret = VideoFailure("worker")

\* record_video has returned a recording whose path it read from the result
\* slot its terminated worker had set
C21_Witness ==
    /\ vpc = "done"
    /\ vraised = "no"
    /\ wpc = "terminated"
    /\ video_result = RecordedPath
    /\ error_result = None
    /\ video_path = video_result

\* ---------------------------------------------- C22: the capture's order
\* the steps of one capture, in the order the claim gives them; between the
\* hold and the closing the session is asked where it writes its recording
CaptureOrder ==
    << "launch", "new_context", "load", "hold", "video_path",
       "close_context", "close_browser", "grace", "locate" >>

\* the worker is at step number i of the capture
AtStep(i) == wpc = CaptureOrder[i]

C23_OwnResult ==
    /\ \A i \in Invocations :
          calls[i].pc = "done"
          => /\ calls[i].got # None
             /\ calls[i].got = workers[i].stored
             /\ calls[i].got \in {CaptureError(i), WebmIn(calls[i].temp_dir)}
             /\ calls[i].got = WebmIn(calls[i].temp_dir)
                   => tmpfs[calls[i].temp_dir].webm = Recording(Page(i))
    /\ \A i, j \in Invocations :
          (i # j /\ calls[i].temp_dir # 0) => calls[i].temp_dir # calls[j].temp_dir

\* one invocation has read the path its thread stored while the thread of
\* another, started before that, has stored an exception which that other
\* invocation has yet to read
C23_Witness ==
    \E i, j \in Invocations :
        /\ i # j
        /\ calls[i].pc = "done"
        /\ calls[i].got = WebmIn(calls[i].temp_dir)
        /\ calls[j].pc = "join"
        /\ workers[j].pc = "terminated"
        /\ workers[j].stored = CaptureError(j)

\* ------------------------------------------------ C24: the capture session
\* C24: over the still-frame calls made on one HTMLFrameRenderer at most one
\* capture session is ever created: the first call that captures creates it
\* and every later call finds it and creates none.
C24_OneSessionPerRenderer ==
    sessions <= 1

\* -------------------------------------------- C25: the returned path exists
\* C25: when record_video has returned a video_path that is not empty, a file
\* is there at that path, whatever the transcoder did (it succeeded, it
\* exited with an error and the recording was copied) and whatever the
\* relocation did (it was not asked for, it copied, it failed).
C25_ReturnedPathExists ==
    (vpc = "done" /\ vret.video_path # EmptyPath)
    => Exists(vfs, vret.video_path)

====
